---- MODULE Spec2Model ----
(***************************************************************************)
(* InjectKit: the container's runtime resolution engine (get,              *)
(* createScopedContainer, override) over a registration map produced by    *)
(* the registry's builder.                                                 *)
(*                                                                         *)
(* A container node is a number 1..Len(parent); node 1 is the root that    *)
(* Registry.build() returns.  JavaScript values are records                *)
(* [k, of, n, args, items]: k is the kind of value, of the identifier it   *)
(* belongs to, n a serial number (object identity), args the constructor   *)
(* arguments the object holds and items the elements pushed into an        *)
(* Array / set into a Map after construction.                              *)
(***************************************************************************)
EXTENDS Integers, Sequences, FiniteSets, TLC

VARIABLES
    registrations,  \* the Map<Identifier, Registration> shared by every node of the tree
    parent,         \* parent[n]: the parent node of n, NoParent for the root
    instances,      \* instances[n]: the node's own Map<Identifier, instance>
    nextObj,        \* serial number of the next object a constructor or factory creates
    ret,            \* history: ret[n][id] is the set of values get(id) on n has returned
                    \* since id was last overridden anywhere in the tree
    ov,             \* history: ov[n][id] is the instance of the latest override(id, _) on n
    live,           \* history: live[id] is the value the root had cached for the singleton
                    \* id when id was first overridden
    last,           \* history: the latest call, its result and the constructions it made
    calls,          \* the number of calls made so far
    registry,       \* the registry's Map<Identifier, InjectKitRegistration>, in insertion order
    outcome,        \* history: the latest call on the registry and how it ended
    history,        \* history: history[id] is the latest register(id) or remove(id) that
                    \* returned, and the number of register(id) calls that returned
    thrown,         \* history: the kinds of error the calls on this registry have thrown
    maps,           \* the Map objects that the build() calls on the registry created
    containers      \* containers[c]: the tree of the c-th container build() returned:
                    \* the Map it reads, its nodes' parents and caches, its objects' numbers

vars == <<registrations, parent, instances, nextObj, ret, ov, live, last, calls,
          registry, outcome, history, thrown, maps, containers>>

----------------------------------------------------------------------------
(* Bounds of the model *)

MaxNodes == 3    \* container nodes in the tree, the root included
MaxObjs == 4     \* objects constructors and factories create
MaxCalls == 5    \* get, createScopedContainer and override calls in one behaviour
MaxStack == 6    \* depth of recursion at which the engine ends a runaway recursion
MaxRegistryCalls == 5    \* register, remove and build calls in one behaviour
MaxBuilds == 2           \* containers built from one registry
MaxBuildCalls == 6       \* calls in one behaviour of a registry and its containers

----------------------------------------------------------------------------
(* Identifiers and values *)

Ids == {"A", "B", "Container"}

NoParent == 0
Root == 1

Lifetimes == {"singleton", "transient", "scoped"}

Val(k, of, n, args) == [k |-> k, of |-> of, n |-> n, args |-> args, items |-> <<>>]

\* JavaScript undefined: an unset optional field, Map.get of an absent key
Undefined == Val("undefined", "", 0, <<>>)
\* a falsy value a factory may return (null, 0, '', false)
Falsy == Val("falsy", "", 0, <<>>)
\* the instance given to useInstance for identifier id
InstanceOf(id) == Val("instance", id, 0, <<>>)
\* an object that exists outside the container and that a factory hands out on every call
SharedOf(id) == Val("shared", id, 0, <<>>)
\* the instances callers pass to override
Mock(i) == Val("mock", "", i, <<>>)
Mocks == {Mock(1), Mock(2)}
\* a container node as a value (the default Container registration's factory returns one)
ContainerRef(n) == Val("container", "Container", n, <<>>)

\* a test that takes every stored value, the falsy ones too, as present
StoredOrTruthy(v) == v.k # "undefined"

\* JavaScript truthiness: `if (instance)`, `!instance`
Truthy(v) == v.k \notin {"undefined", "falsy"}

----------------------------------------------------------------------------
(* Map<K, V> *)

EmptyMap == [x \in {} |-> Undefined]
MapHas(m, key) == key \in DOMAIN m
MapGet(m, key) == IF key \in DOMAIN m THEN m[key] ELSE Undefined
MapSet(m, key, v) == [x \in (DOMAIN m) \cup {key} |-> IF x = key THEN v ELSE m[x]]
MapDelete(m, key) == [x \in (DOMAIN m) \ {key} |-> m[x]]

----------------------------------------------------------------------------
(* The registration builder (InjectKitRegistration) and the records it builds *)

NoClass == "undefined"
NoFactory == [kind |-> "undefined", gets |-> <<>>]
NoCollection == [kind |-> "undefined", keys |-> <<>>, ids |-> <<>>]

\* what `new cls(...)` is an instance of: a class that extends Array, one that extends
\* Map, or a plain class
ClassShape(cls) ==
    CASE cls = "List" -> "array"
      [] cls = "Dict" -> "map"
      [] OTHER -> "object"

\* Reflect.getMetadata('design:paramtypes', target) of the fixture classes: B is
\* declared as constructor(public a: A), like DependentService(simple: SimpleService);
\* ANeedsB is an implementation of A declared as constructor(b: B), and so on
ParamTypes(cls) ==
    CASE cls = "B" -> <<"A">>
      [] cls = "ANeedsB" -> <<"B">>
      [] cls = "ANeedsA" -> <<"A">>
      [] cls = "ANeedsContainer" -> <<"Container">>
      [] cls = "BNeedsC" -> <<"C">>
      [] cls = "BNeedsContainerA" -> <<"Container", "A">>
      [] cls = "C" -> <<"B">>
      [] cls = "CNeedsA" -> <<"A">>
      [] cls = "D" -> <<"B", "C">>
      [] OTHER -> <<>>

\* getDependencies, for decorated classes without a base class
GetDependencies(target) == ParamTypes(target)

\* a builder as register() creates it
NewRegistration ==
    [ctor |-> NoClass, factory |-> NoFactory, instance |-> Undefined,
     collection |-> NoCollection, map |-> NoCollection, lifetime |-> "transient"]

AsLifetime(b, lifetime) == [b EXCEPT !.lifetime = lifetime]
UseClass(b, cls) == [b EXCEPT !.ctor = cls]
UseFactory(b, factory) == [b EXCEPT !.factory = factory]
UseInstance(b, instance) == [b EXCEPT !.instance = instance, !.lifetime = "singleton"]
UseArray(b, cls) ==
    [b EXCEPT !.collection = [kind |-> "array", keys |-> <<>>, ids |-> <<>>], !.ctor = cls]
Push(b, id) == [b EXCEPT !.collection.ids = Append(@, id)]
UseMap(b, cls) ==
    [b EXCEPT !.map = [kind |-> "map", keys |-> <<>>, ids |-> <<>>], !.ctor = cls]

\* a set that keeps the identifier a key already has
SetKeyFirstWins(b, key, id) ==
    IF \E i \in 1..Len(b.map.keys) : b.map.keys[i] = key THEN b
    ELSE [b EXCEPT !.map.keys = Append(@, key), !.map.ids = Append(@, id)]

\* set(key, id): this.map.set(key, id), which replaces the identifier of a key the Map
\* has and leaves the key where it stands
SetKey(b, key, id) ==
    IF \E i \in 1..Len(b.map.keys) : b.map.keys[i] = key
    THEN [b EXCEPT !.map.ids =
             [i \in 1..Len(b.map.ids) |-> IF b.map.keys[i] = key THEN id ELSE b.map.ids[i]]]
    ELSE [b EXCEPT !.map.keys = Append(@, key), !.map.ids = Append(@, id)]

\* a build of the registration that leaves the constructor's parameters out of the
\* dependencies the validator reads
RegistrationBuildWithoutCtorDependencies(b) ==
    LET ctorDependencies == IF b.ctor # NoClass THEN GetDependencies(b.ctor) ELSE <<>>
    IN  [constructor |-> b.ctor,
         factory |-> b.factory,
         instance |-> b.instance,
         lifetime |-> b.lifetime,
         dependencies |->
             IF b.collection.kind # "undefined" THEN b.collection.ids
             ELSE IF b.map.kind # "undefined" THEN b.map.ids
             ELSE <<>>,
         ctorDependencies |-> ctorDependencies,
         collectionDependencies |->
             IF b.collection.kind # "undefined" THEN b.collection ELSE b.map]

\* InjectKitRegistration.build
RegistrationBuild(b) ==
    LET ctorDependencies == IF b.ctor # NoClass THEN GetDependencies(b.ctor) ELSE <<>>
        dependencies ==
            IF b.collection.kind # "undefined" THEN ctorDependencies \o b.collection.ids
            ELSE IF b.map.kind # "undefined" THEN ctorDependencies \o b.map.ids
            ELSE ctorDependencies
    IN  [constructor |-> b.ctor,
         factory |-> b.factory,
         instance |-> b.instance,
         lifetime |-> b.lifetime,
         dependencies |-> dependencies,
         ctorDependencies |-> ctorDependencies,
         collectionDependencies |->
             IF b.collection.kind # "undefined" THEN b.collection ELSE b.map]

\* the registration build() inserts for the Container type itself
ContainerRegistration ==
    [constructor |-> NoClass,
     factory |-> [kind |-> "self", gets |-> <<>>],
     instance |-> Undefined,
     lifetime |-> "singleton",
     dependencies |-> <<>>,
     ctorDependencies |-> <<>>,
     collectionDependencies |-> NoCollection]

\* a build that sets the Container registration whatever the caller registered
BuildRegistrationsAlwaysDefault(builders) ==
    MapSet([id \in DOMAIN builders |-> RegistrationBuild(builders[id])],
           "Container", ContainerRegistration)

\* InjectKitRegistry.build, the map it hands to the root container: every builder built,
\* and the Container registration unless the caller registered Container
BuildRegistrations(builders) ==
    LET built == [id \in DOMAIN builders |-> RegistrationBuild(builders[id])]
    IN  IF MapHas(builders, "Container") THEN built
        ELSE MapSet(built, "Container", ContainerRegistration)

----------------------------------------------------------------------------
(* InjectKitRegistry.  The registry's Map is a sequence of entries [id, b] in          *)
(* insertion order, b the registration builder.  A registry call returns               *)
(* [err, errId, names, registrations]: err = "" on return, the kind of the error when  *)
(* it throws, with the identifier and the names its message lists.                     *)

RegistryKeys(entries) == {entries[i].id : i \in 1..Len(entries)}
RegistryOrder(entries) == [i \in 1..Len(entries) |-> entries[i].id]
RegistryMap(entries) ==
    [id \in RegistryKeys(entries) |->
        (CHOOSE i \in 1..Len(entries) : entries[i].id = id) ]
RegistryBuilders(entries) ==
    [id \in RegistryKeys(entries) |-> entries[RegistryMap(entries)[id]].b]

Done(regs) == [err |-> "", errId |-> "", names |-> <<>>, registrations |-> regs]
Fail(err, id, names) ==
    [err |-> err, errId |-> id, names |-> names, registrations |-> EmptyMap]

\* the dependencies of one registration that are not keys of the map, in order
RECURSIVE MissingOf(_, _)
MissingOf(regs, dependencies) ==
    IF dependencies = <<>> THEN <<>>
    ELSE IF MapHas(regs, Head(dependencies)) THEN MissingOf(regs, Tail(dependencies))
    ELSE <<Head(dependencies)>> \o MissingOf(regs, Tail(dependencies))

\* the loop of verifyRegistrations over the entries from `order` on
RECURSIVE VerifyFrom(_, _, _)
VerifyFrom(regs, order, missingDependencies) ==
    IF order = <<>> THEN Done(regs)
    ELSE LET id == Head(order)
             missing == missingDependencies \o MissingOf(regs, regs[id].dependencies)
         IN  IF Len(missing) > 0 THEN Fail("MissingDependencies", id, missing)
             ELSE VerifyFrom(regs, Tail(order), missing)

\* a verifyRegistrations that stops at the first missing dependency of an entry
VerifyRegistrationsFirstOnly(regs, order) ==
    LET offenders == {i \in 1..Len(order) : MissingOf(regs, regs[order[i]].dependencies) # <<>>}
        first == CHOOSE i \in offenders : \A k \in offenders : i <= k
    IN  IF offenders = {} THEN Done(regs)
        ELSE Fail("MissingDependencies", order[first],
                  <<Head(MissingOf(regs, regs[order[first]].dependencies))>>)

\* a verifyRegistrations that wants every dependency registered before its dependant
VerifyRegistrationsInOrder(regs, order) ==
    LET late == {i \in 1..Len(order) :
                   \E k \in 1..Len(regs[order[i]].dependencies) :
                       \A j \in 1..(i - 1) : order[j] # regs[order[i]].dependencies[k]}
        first == CHOOSE i \in late : \A k \in late : i <= k
    IN  IF late = {} THEN Done(regs)
        ELSE Fail("MissingDependencies", order[first], regs[order[first]].dependencies)

\* verifyRegistrations
VerifyRegistrations(regs, order) == VerifyFrom(regs, order, <<>>)

\* checkCircularDependencies: the walk from `registration` with the path `dependencies`
\* walked so far from id.  A walk that keeps recursing is ended by the engine when it is
\* MaxStack calls deep (RangeError: Maximum call stack size exceeded).
RECURSIVE CheckCircularDependencies(_, _, _, _), CheckEach(_, _, _, _)
CheckCircularDependencies(regs, id, registration, dependencies) ==
    IF Len(dependencies) >= MaxStack THEN Fail("CallStackExceeded", id, dependencies)
    ELSE CheckEach(regs, id, registration.dependencies, dependencies)

\* the for loop of checkCircularDependencies over the dependencies from `rest` on
CheckEach(regs, id, rest, dependencies) ==
    IF rest = <<>> THEN Done(regs)
    ELSE LET dependency == Head(rest)
             walked ==
                 IF MapHas(regs, dependency) /\ Len(regs[dependency].dependencies) > 0
                 THEN CheckCircularDependencies(regs, id, regs[dependency],
                                                Append(dependencies, dependency))
                 ELSE Done(regs)
         IN  IF id = dependency
             THEN Fail("CircularDependency", id, <<id>> \o dependencies \o <<id>>)
             ELSE IF walked.err # "" THEN walked
             ELSE CheckEach(regs, id, Tail(rest), dependencies)

\* the loop of verifyNoCircularDependencies over the entries from `order` on
RECURSIVE CheckFrom(_, _)
CheckFrom(regs, order) ==
    IF order = <<>> THEN Done(regs)
    ELSE LET checked == CheckCircularDependencies(regs, Head(order), regs[Head(order)], <<>>)
         IN  IF checked.err # "" THEN checked ELSE CheckFrom(regs, Tail(order))

\* verifyNoCircularDependencies
VerifyNoCircularDependencies(regs, order) == CheckFrom(regs, order)

\* a build() that looks for cycles before it looks for missing dependencies
BuildCycleCheckFirst(entries) ==
    LET regs == BuildRegistrations(RegistryBuilders(entries))
        order == IF "Container" \in RegistryKeys(entries) THEN RegistryOrder(entries)
                 ELSE Append(RegistryOrder(entries), "Container")
        checked == VerifyNoCircularDependencies(regs, order)
    IN  IF checked.err # "" THEN checked
        ELSE VerifyRegistrations(regs, order)

\* InjectKitRegistry.build: the builders built in insertion order, the Container
\* registration set last unless the caller registered Container, then the two checks
Build(entries) ==
    LET regs == BuildRegistrations(RegistryBuilders(entries))
        order == IF "Container" \in RegistryKeys(entries) THEN RegistryOrder(entries)
                 ELSE Append(RegistryOrder(entries), "Container")
        verified == VerifyRegistrations(regs, order)
    IN  IF verified.err # "" THEN verified
        ELSE VerifyNoCircularDependencies(regs, order)

\* a build() that validates the registry's own Map, to which it adds the Container
\* registration
RegistryAfterBuildInPlace(entries) ==
    IF "Container" \in RegistryKeys(entries) THEN entries
    ELSE Append(entries, [id |-> "Container", b |-> NewRegistration])

\* the registry's Map after build(): build() reads this.registrations and writes only
\* the Map it creates
RegistryAfterBuild(entries) == entries

\* a register that sets the new builder before it looks for an existing one
RegisterReplacing(entries, id) ==
    IF id \in RegistryKeys(entries)
    THEN [err |-> "RegistrationExists", errId |-> id,
          entries |-> [i \in 1..Len(entries) |->
                          IF entries[i].id = id THEN [id |-> id, b |-> NewRegistration]
                          ELSE entries[i]]]
    ELSE [err |-> "", errId |-> "",
          entries |-> Append(entries, [id |-> id, b |-> NewRegistration])]

\* register: a new builder under id at the end of the Map
Register(entries, id) ==
    IF id \in RegistryKeys(entries)
    THEN [err |-> "RegistrationExists", errId |-> id, entries |-> entries]
    ELSE [err |-> "", errId |-> "",
          entries |-> Append(entries, [id |-> id, b |-> NewRegistration])]

\* a remove that deletes the oldest entry of the Map
RemoveOldest(entries, id) ==
    IF id \notin RegistryKeys(entries)
    THEN [err |-> "RegistrationNotFound", errId |-> id, entries |-> entries]
    ELSE [err |-> "", errId |-> "", entries |-> Tail(entries)]

\* remove
Remove(entries, id) ==
    IF id \notin RegistryKeys(entries)
    THEN [err |-> "RegistrationNotFound", errId |-> id, entries |-> entries]
    ELSE [err |-> "", errId |-> "",
          entries |-> SelectSeq(entries, LAMBDA e : e.id # id)]

\* isRegistered
IsRegistered(entries, id) == id \in RegistryKeys(entries)

\* the registration override() stores
OverrideRegistration(instance) ==
    [constructor |-> NoClass,
     factory |-> NoFactory,
     instance |-> instance,
     lifetime |-> "scoped",
     dependencies |-> <<>>,
     ctorDependencies |-> <<>>,
     collectionDependencies |-> NoCollection]

----------------------------------------------------------------------------
(* InjectKitContainer.  A world w is the part of the state a call reads and writes:   *)
(* [registrations, parent, instances, nextObj, built]; built lists the constructions  *)
(* <<node, id>> that a constructor or a factory completed in the call.  A call returns *)
(* [w, val, err, errId]: err = "" on return, the kind of error when it throws.        *)

Return(w, v) == [w |-> w, val |-> v, err |-> "", errId |-> ""]
Throw(w, err, id) == [w |-> w, val |-> Undefined, err |-> err, errId |-> id]

\* the container that holds no parent, reached by `while (container.parent)`
RECURSIVE RootOf(_, _)
RootOf(w, n) == IF w.parent[n] # NoParent THEN RootOf(w, w.parent[n]) ELSE n

\* container.instances.set(id, instance)
CacheSet(w, n, id, instance) ==
    [w EXCEPT !.instances[n] = MapSet(w.instances[n], id, instance)]

\* a lookup that takes an instance from any node of the tree, the oldest node first
GetAnyInstance(w, n, id) ==
    LET holders == {m \in 1..Len(w.instances) : Truthy(MapGet(w.instances[m], id))}
    IN  IF holders = {} THEN MapGet(w.instances[n], id)
        ELSE w.instances[CHOOSE m \in holders : \A k \in holders : m <= k][id]

\* a lookup in the node's own cache only
GetOwnInstance(w, n, id) == MapGet(w.instances[n], id)

\* a lookup that passes over the node's own cache when the node has a parent and takes
\* the parent's entry
GetScopedInstanceFromParent(w, n, id) ==
    IF w.parent[n] # NoParent THEN MapGet(w.instances[w.parent[n]], id)
    ELSE MapGet(w.instances[n], id)

\* getScopedInstance
RECURSIVE GetScopedInstance(_, _, _)
GetScopedInstance(w, n, id) ==
    LET instance == MapGet(w.instances[n], id)
    IN  IF ~Truthy(instance) /\ w.parent[n] # NoParent
        THEN GetScopedInstance(w, w.parent[n], id)
        ELSE instance

\* `new registration.constructor(...dependencies)`: a new object of the class
Construct(w, n, id, cls, dependencies) ==
    Return([w EXCEPT !.nextObj = @ + 1, !.built = Append(@, <<n, id>>)],
           Val(ClassShape(cls), cls, w.nextObj, dependencies))

\* what a factory returns once it has resolved the identifiers it asks the container for
FactoryResult(w, n, id, factory, resolved) ==
    LET w1 == [w EXCEPT !.built = Append(@, <<n, id>>)]
    IN  CASE factory.kind = "fresh" ->
                Return([w1 EXCEPT !.nextObj = @ + 1], Val("object", id, w.nextObj, resolved))
          [] factory.kind = "shared" -> Return(w1, SharedOf(id))
          [] factory.kind = "self" -> Return(w1, ContainerRef(n))
          [] OTHER -> Return(w1, Falsy)

\* a createInstance that keeps a singleton in the resolving node's own cache
StoreInstanceInThisNode(w, n, id, lifetime, instance) ==
    IF lifetime = "singleton" \/ lifetime = "scoped" THEN CacheSet(w, n, id, instance)
    ELSE w

\* a createInstance that does not keep scoped instances
StoreInstanceSingletonOnly(w, n, id, lifetime, instance) ==
    IF lifetime = "singleton" THEN CacheSet(w, RootOf(w, n), id, instance)
    ELSE w

\* a createInstance that keeps a singleton in the root's cache and in the resolving
\* node's own cache
StoreInstanceRootAndHere(w, n, id, lifetime, instance) ==
    IF lifetime = "singleton"
    THEN CacheSet(CacheSet(w, RootOf(w, n), id, instance), n, id, instance)
    ELSE IF lifetime = "scoped" THEN CacheSet(w, n, id, instance)
    ELSE w

\* where createInstance stores the instance, by lifetime
StoreInstance(w, n, id, lifetime, instance) ==
    IF lifetime = "singleton" THEN CacheSet(w, RootOf(w, n), id, instance)
    ELSE IF lifetime = "scoped" THEN CacheSet(w, n, id, instance)
    ELSE w

\* a createInstance that takes the instance field when no strategy is set
StrategyDefaultInstance(registration) ==
    IF registration.constructor # NoClass THEN "constructor"
    ELSE IF registration.factory.kind # "undefined" THEN "factory"
    ELSE "instance"

\* a createInstance without the branch for a pre-built instance
StrategyWithoutInstance(registration) ==
    IF registration.constructor # NoClass THEN "constructor"
    ELSE IF registration.factory.kind # "undefined" THEN "factory"
    ELSE "invalid"

\* the creation strategy createInstance takes: the first of constructor, factory and
\* instance that the registration has
Strategy(registration) ==
    IF registration.constructor # NoClass THEN "constructor"
    ELSE IF registration.factory.kind # "undefined" THEN "factory"
    ELSE IF Truthy(registration.instance) THEN "instance"
    ELSE "invalid"

\* get looks for a cached instance unless the lifetime is transient
UsesCache(registration) == registration.lifetime # "transient"

\* a fill that puts each value in front of the items: instance.unshift(value)
FillCollectionFront(instance, coll, values) ==
    LET items == IF coll.kind = "map"
                 THEN [i \in 1..Len(coll.ids) |->
                          Val("entry", coll.keys[i], 0, <<values[i]>>)]
                 ELSE values
    IN  [instance EXCEPT !.items = [i \in 1..Len(items) |-> items[Len(items) + 1 - i]] \o @]

\* instance.push(value) appends each value to the items of an Array,
\* instance.set(key, value) an entry to those of a Map
FillCollection(instance, coll, values) ==
    LET items == IF coll.kind = "map"
                 THEN [i \in 1..Len(coll.ids) |->
                          Val("entry", coll.keys[i], 0, <<values[i]>>)]
                 ELSE values
    IN  [instance EXCEPT !.items = @ \o items]

RECURSIVE Get(_, _, _), CreateInstance(_, _, _, _), GetAll(_, _, _, _),
          GetAllBackwards(_, _, _, _)

\* a loop that resolves the identifiers from the last one to the first one and hands
\* the results over in the order of ids
GetAllBackwards(w, n, ids, acc) ==
    IF ids = <<>> THEN Return(w, Val("list", "", 0, acc))
    ELSE LET r == Get(w, n, ids[Len(ids)])
         IN  IF r.err # "" THEN r
             ELSE GetAllBackwards(r.w, n, SubSeq(ids, 1, Len(ids) - 1), <<r.val>> \o acc)

\* this.get(dependency) for each identifier of ids in order, the results appended to
\* acc; the first get that throws ends the loop
GetAll(w, n, ids, acc) ==
    IF ids = <<>> THEN Return(w, Val("list", "", 0, acc))
    ELSE LET r == Get(w, n, Head(ids))
         IN  IF r.err # "" THEN r
             ELSE GetAll(r.w, n, Tail(ids), Append(acc, r.val))

\* createInstance
CreateInstance(w, n, id, registration) ==
    LET strategy == Strategy(registration)
        deps == IF strategy = "constructor"
                THEN GetAll(w, n, registration.ctorDependencies, <<>>)
                ELSE IF strategy = "factory"
                THEN GetAll(w, n, registration.factory.gets, <<>>)
                ELSE Return(w, Val("list", "", 0, <<>>))
        primary ==
            IF deps.err # "" THEN deps
            ELSE IF strategy = "constructor"
            THEN Construct(deps.w, n, id, registration.constructor, deps.val.args)
            ELSE IF strategy = "factory"
            THEN FactoryResult(deps.w, n, id, registration.factory, deps.val.args)
            ELSE IF strategy = "instance"
            THEN Return(w, registration.instance)
            ELSE Throw(w, "InvalidRegistration", id)
        \* the collection dependencies
        coll == registration.collectionDependencies
        fills == (coll.kind = "array" /\ primary.val.k = "array")
                    \/ (coll.kind = "map" /\ primary.val.k = "map")
        elems == IF primary.err = "" /\ fills
                 THEN GetAll(primary.w, n, coll.ids, <<>>)
                 ELSE Return(primary.w, Val("list", "", 0, <<>>))
    IN  IF primary.err # "" THEN primary
        ELSE IF elems.err # "" THEN elems
        ELSE LET instance == IF fills THEN FillCollection(primary.val, coll, elems.val.args)
                             ELSE primary.val
             IN  Return(StoreInstance(elems.w, n, id, registration.lifetime, instance),
                        instance)

\* a get that returns undefined for an identifier that is not registered
GetLenient(w, n, id) ==
    IF ~MapHas(w.registrations, id) THEN Return(w, Undefined)
    ELSE LET registration == w.registrations[id]
             instance == IF UsesCache(registration)
                         THEN GetScopedInstance(w, n, id)
                         ELSE Undefined
         IN  IF UsesCache(registration) /\ Truthy(instance)
             THEN Return(w, instance)
             ELSE CreateInstance(w, n, id, registration)

\* a get that reserves the cache entry of the node before it creates the instance
GetReserving(w, n, id) ==
    IF ~MapHas(w.registrations, id) THEN Throw(w, "RegistrationNotFound", id)
    ELSE LET registration == w.registrations[id]
             instance == IF UsesCache(registration)
                         THEN GetScopedInstance(w, n, id)
                         ELSE Undefined
         IN  IF UsesCache(registration) /\ Truthy(instance)
             THEN Return(w, instance)
             ELSE CreateInstance(CacheSet(w, n, id, Undefined), n, id, registration)

\* a get that handles a transient registration as a scoped one
GetTransientAsScoped(w, n, id) ==
    IF ~MapHas(w.registrations, id) THEN Throw(w, "RegistrationNotFound", id)
    ELSE LET registration ==
                 [w.registrations[id] EXCEPT
                     !.lifetime = IF @ = "transient" THEN "scoped" ELSE @]
             instance == GetScopedInstance(w, n, id)
         IN  IF Truthy(instance)
             THEN Return(w, instance)
             ELSE CreateInstance(w, n, id, registration)

\* get
Get(w, n, id) ==
    IF ~MapHas(w.registrations, id) THEN Throw(w, "RegistrationNotFound", id)
    ELSE LET registration == w.registrations[id]
             instance == IF UsesCache(registration)
                         THEN GetScopedInstance(w, n, id)
                         ELSE Undefined
         IN  IF UsesCache(registration) /\ Truthy(instance)
             THEN Return(w, instance)
             ELSE CreateInstance(w, n, id, registration)

\* a createScopedContainer that hands the new node a copy of this node's cache
CreateScopedContainerCopying(w, n) ==
    [w EXCEPT !.parent = Append(@, n), !.instances = Append(@, w.instances[n])]

\* createScopedContainer: new InjectKitContainer(this.registrations, this)
CreateScopedContainer(w, n) ==
    [w EXCEPT !.parent = Append(@, n), !.instances = Append(@, EmptyMap)]

\* an override that replaces the registration and leaves the node's cache alone
OverrideRegistrationOnly(w, n, id, instance) ==
    [w EXCEPT !.registrations = MapSet(@, id, OverrideRegistration(instance))]

\* an override that empties the node's cache before it sets the instance
OverrideClearingCache(w, n, id, instance) ==
    [w EXCEPT !.registrations = MapSet(@, id, OverrideRegistration(instance)),
              !.instances[n] = MapSet(EmptyMap, id, instance)]

\* an override that sets the instance in the node's cache and writes no registration
OverrideCacheOnly(w, n, id, instance) == CacheSet(w, n, id, instance)

\* override
Override(w, n, id, instance) ==
    CacheSet([w EXCEPT !.registrations = MapSet(@, id, OverrideRegistration(instance))],
             n, id, instance)

----------------------------------------------------------------------------
(* The registries the container trees are built from *)

\* the factories callers register: one that creates an object on every call, one that
\* hands out the same object on every call, one that returns a falsy value
Factories ==
    {[kind |-> "fresh", gets |-> <<>>], [kind |-> "shared", gets |-> <<>>],
     [kind |-> "falsy", gets |-> <<>>]}

\* register(A) followed by useClass(A), useFactory(f) or useInstance(x) and a lifetime,
\* or by nothing at all
BuildersOfA ==
    {AsLifetime(UseClass(NewRegistration, "A"), l) : l \in Lifetimes}
        \cup {AsLifetime(UseFactory(NewRegistration, f), l) : f \in Factories, l \in Lifetimes}
        \cup {AsLifetime(UseInstance(NewRegistration, InstanceOf("A")), l) : l \in Lifetimes}
        \cup {AsLifetime(NewRegistration, l) : l \in Lifetimes}

\* register(B).useClass(B) and a lifetime
BuildersOfB == {AsLifetime(UseClass(NewRegistration, "B"), l) : l \in Lifetimes}

\* a factory that asks the container it is given for Container and for B before it
\* creates the object: (c) => new A(c.get(Container), c.get(B))
AskingFactory == [kind |-> "fresh", gets |-> <<"Container", "B">>]

\* register(A).useFactory(AskingFactory) and a lifetime, B not registered
AskingRegistries ==
    {MapSet(EmptyMap, "A", AsLifetime(UseFactory(NewRegistration, AskingFactory), l)) :
        l \in Lifetimes}

\* register(B).useClass(BNeedsContainerA) and a lifetime, A a singleton class or
\* registered with nothing chained
TwoDependencyRegistries ==
    {MapSet(MapSet(EmptyMap, "A", a), "B",
            AsLifetime(UseClass(NewRegistration, "BNeedsContainerA"), l)) :
        a \in {NewRegistration, AsLifetime(UseClass(NewRegistration, "A"), "singleton")},
        l \in Lifetimes}

\* the calls chained on useArray(List) and on useMap(Dict): push(A).push(Container),
\* and set("x", Container).set("y", Container).set("x", A)
ListPushes == <<"A", "Container">>
DictSets == <<<<"x", "Container">>, <<"y", "Container">>, <<"x", "A">>>>

RECURSIVE PushAll(_, _), SetAll(_, _)
PushAll(b, ids) == IF ids = <<>> THEN b ELSE PushAll(Push(b, Head(ids)), Tail(ids))
SetAll(b, sets) ==
    IF sets = <<>> THEN b ELSE SetAll(SetKey(b, Head(sets)[1], Head(sets)[2]), Tail(sets))

\* register(B).useArray(List) or register(B).useMap(Dict) with those calls chained, A
\* registered in any of its ways; the builder useArray and useMap return has no call
\* that sets a lifetime
CollectionRegistries ==
    {MapSet(MapSet(EmptyMap, "A", a), "B", b) :
        a \in BuildersOfA,
        b \in {PushAll(UseArray(NewRegistration, "List"), ListPushes),
               SetAll(UseMap(NewRegistration, "Dict"), DictSets)}}

\* register(B).useClass(B) alone: B takes A, which is not registered
DependantOnlyRegistries == {MapSet(EmptyMap, "B", b) : b \in BuildersOfB}

\* the registries callers build: A registered, B registered or not, and B alone, for
\* which build() throws
Registries ==
    DependantOnlyRegistries
        \cup {MapSet(EmptyMap, "A", a) : a \in BuildersOfA}
        \cup {MapSet(MapSet(EmptyMap, "A", a), "B", b) : a \in BuildersOfA, b \in BuildersOfB}
        \cup AskingRegistries
        \cup TwoDependencyRegistries

----------------------------------------------------------------------------
(* The state machine *)

World ==
    [registrations |-> registrations, parent |-> parent, instances |-> instances,
     nextObj |-> nextObj, built |-> <<>>]

NoCall == [op |-> "build", node |-> Root, id |-> "", val |-> Undefined, err |-> "",
           errId |-> "", built |-> <<>>]

NoOutcome == [op |-> "new", id |-> "", err |-> "", errId |-> "", names |-> <<>>]

\* the history after a register(id) or remove(id) that returned
Returned(h, op, id) ==
    MapSet(h, id, [op |-> op,
                   n |-> (IF MapHas(h, id) THEN h[id].n ELSE 0)
                            + (IF op = "register" THEN 1 ELSE 0)])

\* how a call on the registry ended
Outcome(op, id, r) ==
    [op |-> op, id |-> id, err |-> r.err, errId |-> r.errId,
     names |-> IF op = "build" THEN r.names ELSE <<>>]

\* the entries of a registry that registered A, then B, then Container
AsEntries(r) ==
    LET order == SelectSeq(<<"A", "B", "Container">>, LAMBDA id : MapHas(r, id))
    IN  [i \in 1..Len(order) |-> [id |-> order[i], b |-> r[order[i]]]]

Nodes == 1..Len(parent)

\* the nodes from n up to the root, n and the root included
RECURSIVE Path(_)
Path(n) == IF parent[n] = NoParent THEN {n} ELSE {n} \cup Path(parent[n])

LifetimeIs(id, lifetime) ==
    MapHas(registrations, id) /\ registrations[id].lifetime = lifetime
IsSingleton(id) == LifetimeIs(id, "singleton")
IsTransient(id) == LifetimeIs(id, "transient")
\* registered scoped, and not a registration an override has replaced
IsScoped(id) == LifetimeIs(id, "scoped") /\ \A n \in Nodes : ~MapHas(ov[n], id)

\* what get(id) on n has returned so far
Rets(n, id) == IF MapHas(ret[n], id) THEN ret[n][id] ELSE {}
AllRets(id) == UNION {Rets(n, id) : n \in Nodes}

\* Registry.build() returned the root container: new InjectKitContainer(registrations).
\* The tree does not refer to the registry it was built from, which is left out here.
Init ==
    /\ \E r \in Registries :
          /\ Build(AsEntries(r)).err = ""
          /\ registrations = Build(AsEntries(r)).registrations
    /\ registry = <<>>
    /\ outcome = NoOutcome
    /\ history = EmptyMap
    /\ thrown = {}
    /\ maps = <<>>
    /\ containers = <<>>
    /\ parent = <<NoParent>>
    /\ instances = <<EmptyMap>>
    /\ nextObj = 1
    /\ ret = <<EmptyMap>>
    /\ ov = <<EmptyMap>>
    /\ live = EmptyMap
    /\ last = NoCall
    /\ calls = 0

\* Registry.build() returned the root container for a registry with a collection or
\* with a class of two constructor dependencies
InitCollections ==
    /\ \E r \in CollectionRegistries \cup TwoDependencyRegistries :
          /\ Build(AsEntries(r)).err = ""
          /\ registrations = Build(AsEntries(r)).registrations
    /\ registry = <<>>
    /\ outcome = NoOutcome
    /\ history = EmptyMap
    /\ thrown = {}
    /\ maps = <<>>
    /\ containers = <<>>
    /\ parent = <<NoParent>>
    /\ instances = <<EmptyMap>>
    /\ nextObj = 1
    /\ ret = <<EmptyMap>>
    /\ ov = <<EmptyMap>>
    /\ live = EmptyMap
    /\ last = NoCall
    /\ calls = 0

\* n.get(id)
GetCall(n, id) ==
    LET r == Get(World, n, id)
    IN  /\ calls < MaxCalls
        /\ r.w.nextObj <= MaxObjs + 1
        /\ calls' = calls + 1
        /\ registrations' = r.w.registrations
        /\ parent' = r.w.parent
        /\ instances' = r.w.instances
        /\ nextObj' = r.w.nextObj
        /\ ret' = IF r.err = ""
                  THEN [ret EXCEPT ![n] = MapSet(@, id, Rets(n, id) \cup {r.val})]
                  ELSE ret
        /\ UNCHANGED <<ov, live, registry, outcome, history, thrown, maps, containers>>
        /\ last' = [op |-> "get", node |-> n, id |-> id, val |-> r.val, err |-> r.err,
                    errId |-> r.errId, built |-> r.w.built]

\* n.createScopedContainer()
CreateScopedContainerCall(n) ==
    LET w == CreateScopedContainer(World, n)
    IN  /\ calls < MaxCalls
        /\ Len(parent) < MaxNodes
        /\ calls' = calls + 1
        /\ registrations' = w.registrations
        /\ parent' = w.parent
        /\ instances' = w.instances
        /\ nextObj' = w.nextObj
        /\ ret' = Append(ret, EmptyMap)
        /\ ov' = Append(ov, EmptyMap)
        /\ UNCHANGED <<live, registry, outcome, history, thrown, maps, containers>>
        /\ last' = [op |-> "createScopedContainer", node |-> n, id |-> "",
                    val |-> ContainerRef(Len(parent) + 1), err |-> "", errId |-> "",
                    built |-> <<>>]

\* n.override(id, instance), on a scoped container
OverrideCall(n, id, instance) ==
    LET w == Override(World, n, id, instance)
    IN  /\ calls < MaxCalls
        /\ parent[n] # NoParent
        /\ calls' = calls + 1
        /\ registrations' = w.registrations
        /\ parent' = w.parent
        /\ instances' = w.instances
        /\ nextObj' = w.nextObj
        /\ ret' = [m \in Nodes |-> MapDelete(ret[m], id)]
        /\ ov' = [ov EXCEPT ![n] = MapSet(@, id, instance)]
        /\ live' = IF IsSingleton(id) /\ MapHas(instances[Root], id)
                   THEN MapSet(live, id, instances[Root][id])
                   ELSE live
        /\ UNCHANGED <<registry, outcome, history, thrown, maps, containers>>
        /\ last' = [op |-> "override", node |-> n, id |-> id, val |-> instance,
                    err |-> "", errId |-> "", built |-> <<>>]

\* the identifiers callers ask for and override
CallIds == {"A", "B"}

\* the identifiers callers ask for
GetIds == CallIds \cup {"Container"}

Next ==
    \/ \E n \in Nodes, id \in GetIds : GetCall(n, id)
    \/ \E n \in Nodes : CreateScopedContainerCall(n)
    \/ \E n \in Nodes, id \in CallIds, instance \in Mocks : OverrideCall(n, id, instance)

Spec == Init /\ [][Next]_vars

\* the same calls on the trees of InitCollections
SpecCollections == InitCollections /\ [][Next]_vars

----------------------------------------------------------------------------
(* The registry before and between builds *)

RegistryIds == {"A", "B", "C", "D", "Container"}

\* what the caller chains on the builder register(id) returned: useClass with an
\* implementation of id, useArray with pushes, useInstance
BuildersFor(id) ==
    CASE id = "A" -> {UseClass(NewRegistration, cls) :
                         cls \in {"A", "ANeedsB", "ANeedsA", "ANeedsContainer"}}
      [] id = "B" -> {UseClass(NewRegistration, cls) : cls \in {"B", "BNeedsC"}}
      [] id = "C" -> {UseClass(NewRegistration, cls) : cls \in {"C", "CNeedsA"}}
                        \cup {Push(UseArray(NewRegistration, "List"), "B")}
      [] id = "D" -> {UseClass(NewRegistration, "D"),
                      Push(Push(UseArray(NewRegistration, "List"), "B"), "C")}
      [] OTHER -> {UseInstance(NewRegistration, InstanceOf(id))}

\* new InjectKitRegistry()
InitRegistry ==
    /\ registry = <<>>
    /\ outcome = NoOutcome
    /\ history = EmptyMap
    /\ thrown = {}
    /\ maps = <<>>
    /\ containers = <<>>
    /\ registrations = EmptyMap
    /\ parent = <<>>
    /\ instances = <<>>
    /\ nextObj = 1
    /\ ret = <<>>
    /\ ov = <<>>
    /\ live = EmptyMap
    /\ last = NoCall
    /\ calls = 0

\* registry.register(id) and the calls chained on the builder it returns
RegisterCall(id, b) ==
    LET r == Register(registry, id)
    IN  /\ calls < MaxRegistryCalls
        /\ calls' = calls + 1
        /\ registry' = IF r.err # "" THEN r.entries
                       ELSE [r.entries EXCEPT ![Len(r.entries)].b = b]
        /\ outcome' = Outcome("register", id, r)
        /\ history' = IF r.err = "" THEN Returned(history, "register", id) ELSE history
        /\ thrown' = IF r.err = "" THEN thrown ELSE thrown \cup {r.err}
        /\ UNCHANGED <<registrations, parent, instances, nextObj, ret, ov, live, last,
                       maps, containers>>

\* registry.remove(id)
RemoveCall(id) ==
    LET r == Remove(registry, id)
    IN  /\ calls < MaxRegistryCalls
        /\ calls' = calls + 1
        /\ registry' = r.entries
        /\ outcome' = Outcome("remove", id, r)
        /\ history' = IF r.err = "" THEN Returned(history, "remove", id) ELSE history
        /\ thrown' = IF r.err = "" THEN thrown ELSE thrown \cup {r.err}
        /\ UNCHANGED <<registrations, parent, instances, nextObj, ret, ov, live, last,
                       maps, containers>>

\* registry.build(): the root container when it returns
BuildCall ==
    LET r == Build(registry)
    IN  /\ calls < MaxRegistryCalls
        /\ calls' = calls + 1
        /\ outcome' = Outcome("build", "", r)
        /\ IF r.err = ""
           THEN /\ registrations' = r.registrations
                /\ parent' = <<NoParent>>
                /\ instances' = <<EmptyMap>>
                /\ ret' = <<EmptyMap>>
                /\ ov' = <<EmptyMap>>
           ELSE UNCHANGED <<registrations, parent, instances, ret, ov>>
        /\ registry' = RegistryAfterBuild(registry)
        /\ thrown' = IF r.err = "" THEN thrown ELSE thrown \cup {r.err}
        /\ UNCHANGED <<nextObj, live, last, history, maps, containers>>

NextRegistry ==
    \/ \E id \in RegistryIds : \E b \in BuildersFor(id) : RegisterCall(id, b)
    \/ \E id \in RegistryIds : RemoveCall(id)
    \/ BuildCall

SpecRegistry == InitRegistry /\ [][NextRegistry]_vars

----------------------------------------------------------------------------
(* One registry and the containers of several build() calls *)

\* a build() that fills the Map of the build() before it
NewMapReused(heap) == IF heap = <<>> THEN 1 ELSE Len(heap)

\* the Map build() fills and hands to the container: `new Map<Identifier, Registration>()`,
\* an object that did not exist
NewMap(heap) == Len(heap) + 1

\* the world of the c-th container
WorldOf(c) ==
    [registrations |-> maps[containers[c].map], parent |-> containers[c].parent,
     instances |-> containers[c].instances, nextObj |-> containers[c].nextObj,
     built |-> <<>>]

\* the heap and the c-th container after a call on it that left the world w
Written(c, w) ==
    /\ maps' = [maps EXCEPT ![containers[c].map] = w.registrations]
    /\ containers' = [containers EXCEPT ![c] =
                         [map |-> containers[c].map, parent |-> w.parent,
                          instances |-> w.instances, nextObj |-> w.nextObj]]

\* registry.build() once more: the container it returns is kept beside the earlier ones
BuildContainerCall ==
    LET r == Build(registry)
        map == NewMap(maps)
    IN  /\ calls < MaxBuildCalls
        /\ Len(containers) < MaxBuilds
        /\ calls' = calls + 1
        /\ outcome' = Outcome("build", "", r)
        /\ thrown' = IF r.err = "" THEN thrown ELSE thrown \cup {r.err}
        /\ registry' = RegistryAfterBuild(registry)
        /\ IF r.err = ""
           THEN /\ maps' = IF map > Len(maps) THEN Append(maps, r.registrations)
                           ELSE [maps EXCEPT ![map] = r.registrations]
                /\ containers' = Append(containers,
                                        [map |-> map, parent |-> <<NoParent>>,
                                         instances |-> <<EmptyMap>>, nextObj |-> 1])
           ELSE UNCHANGED <<maps, containers>>
        /\ UNCHANGED <<registrations, parent, instances, nextObj, ret, ov, live, last,
                       history>>

\* n is a node of the c-th container
InTree(c, n) == c <= Len(containers) /\ n <= Len(containers[c].parent)

\* n.get(id) on a node of the c-th container
ContainerGetCall(c, n, id) ==
    LET r == Get(WorldOf(c), n, id)
    IN  /\ InTree(c, n)
        /\ calls < MaxBuildCalls
        /\ r.w.nextObj <= MaxObjs + 1
        /\ calls' = calls + 1
        /\ Written(c, r.w)
        /\ UNCHANGED <<registrations, parent, instances, nextObj, ret, ov, live, last,
                       registry, outcome, history, thrown>>

\* n.createScopedContainer() on a node of the c-th container
ContainerScopeCall(c, n) ==
    /\ InTree(c, n)
    /\ calls < MaxBuildCalls
    /\ Len(containers[c].parent) < MaxNodes
    /\ calls' = calls + 1
    /\ Written(c, CreateScopedContainer(WorldOf(c), n))
    /\ UNCHANGED <<registrations, parent, instances, nextObj, ret, ov, live, last,
                   registry, outcome, history, thrown>>

\* n.override(id, instance) on a scoped container of the c-th container
ContainerOverrideCall(c, n, id, instance) ==
    /\ InTree(c, n)
    /\ calls < MaxBuildCalls
    /\ containers[c].parent[n] # NoParent
    /\ calls' = calls + 1
    /\ Written(c, Override(WorldOf(c), n, id, instance))
    /\ UNCHANGED <<registrations, parent, instances, nextObj, ret, ov, live, last,
                   registry, outcome, history, thrown>>

NextBuilds ==
    \/ \E id \in RegistryIds : \E b \in BuildersFor(id) : RegisterCall(id, b)
    \/ \E id \in RegistryIds : RemoveCall(id)
    \/ BuildContainerCall
    \/ \E c \in 1..MaxBuilds, n \in 1..MaxNodes, id \in CallIds : ContainerGetCall(c, n, id)
    \/ \E c \in 1..MaxBuilds, n \in 1..MaxNodes : ContainerScopeCall(c, n)
    \/ \E c \in 1..MaxBuilds, n \in 1..MaxNodes, id \in CallIds, instance \in Mocks :
          ContainerOverrideCall(c, n, id, instance)

SpecBuilds == InitRegistry /\ [][NextBuilds]_vars

----------------------------------------------------------------------------
(* Properties *)

\* the latest call was a get(id) that returned
Got(id) == last.op = "get" /\ last.id = id /\ last.err = ""

\* the registration of id builds a new object on every construction: a class, or a
\* factory that creates one
BuildsNew(id) ==
    /\ MapHas(registrations, id)
    /\ \/ registrations[id].constructor # NoClass
       \/ registrations[id].constructor = NoClass /\ registrations[id].factory.kind = "fresh"

\* C1: for an identifier registered singleton, every get(id), on whichever node of the
\* tree and in whichever order, has returned one and the same value
C1_SingletonIdentity ==
    \A id \in CallIds : IsSingleton(id) => Cardinality(AllRets(id)) <= 1

\* C1's case: a singleton first resolved on a scoped container, then resolved on
\* another node without a construction
C1_Witness ==
    \E id \in CallIds, n \in Nodes, m \in Nodes :
        /\ IsSingleton(id) /\ BuildsNew(id)
        /\ n # m /\ parent[n] # NoParent
        /\ Rets(n, id) # {} /\ Rets(m, id) # {}
        /\ Got(id) /\ last.node = m /\ last.built = <<>>

\* C2: once a singleton id has been constructed and its value stored in the root's
\* cache, no later get, from any node, invokes the constructor or the factory of id again
C2_SingletonConstructedOnce ==
    [][\A id \in CallIds :
          (IsSingleton(id) /\ MapHas(instances[Root], id) /\ last'.op = "get")
              => \A i \in 1..Len(last'.built) : last'.built[i][2] # id]_vars

\* C3 as stated: every get(id) of a transient id returns a value no earlier get(id)
\* returned
C3_TransientDistinct ==
    [][\A id \in CallIds :
          (IsTransient(id) /\ Got(id)') => last'.val \notin AllRets(id)]_vars

\* C3 as amended: so it is when the registration of id builds a new object on every
\* construction
C3_TransientDistinctWhenBuilt ==
    [][\A id \in CallIds :
          (IsTransient(id) /\ BuildsNew(id) /\ Got(id)') => last'.val \notin AllRets(id)]_vars

\* C3's case: a transient id resolved on two different nodes and twice on one node
C3_Witness ==
    \E id \in CallIds, n \in Nodes, m \in Nodes :
        /\ IsTransient(id) /\ BuildsNew(id)
        /\ n # m
        /\ Cardinality(Rets(n, id)) >= 2 /\ Rets(m, id) # {}

Siblings(s1, s2) == s1 # s2 /\ parent[s1] = Root /\ parent[s2] = Root

\* C5 as stated: for a scoped id, two different children of the root never return the
\* same value from get(id)
C5_SiblingsDiffer ==
    \A id \in CallIds, s1 \in Nodes, s2 \in Nodes :
        (IsScoped(id) /\ Siblings(s1, s2)) => Rets(s1, id) \cap Rets(s2, id) = {}

\* C5 as amended: when the registration of the scoped id builds a new object on every
\* construction, a value that two different children of the root both returned from
\* get(id) is the instance the root holds in its own cache
C5_SiblingsShareOnlyTheRootInstance ==
    \A id \in CallIds, s1 \in Nodes, s2 \in Nodes :
        (IsScoped(id) /\ BuildsNew(id) /\ Siblings(s1, s2))
            => \A v \in Rets(s1, id) \cap Rets(s2, id) : MapGet(instances[Root], id) = v

\* C5's case: the root holds no instance of the scoped id and two of its children have
\* resolved it
C5_Witness ==
    \E id \in CallIds, s1 \in Nodes, s2 \in Nodes :
        /\ IsScoped(id) /\ BuildsNew(id) /\ Siblings(s1, s2)
        /\ ~MapHas(instances[Root], id)
        /\ Rets(s1, id) # {} /\ Rets(s2, id) # {}

\* the nodes below p on the way from d up to p
Nearer(d, p) == Path(d) \ Path(p)

\* C6: when p has resolved the scoped id, get(id) on a descendant d of p with no cached
\* entry for id on d or between d and p returns the value p returned
C6_DescendantsInherit ==
    [][\A id \in CallIds, p \in Nodes, d \in Nodes :
          (/\ IsScoped(id) /\ Rets(p, id) # {}
           /\ d # p /\ p \in Path(d)
           /\ \A m \in Nearer(d, p) : ~MapHas(instances[m], id)
           /\ last'.op = "get" /\ last'.node = d /\ last'.id = id)
              => last'.err = "" /\ last'.val \in Rets(p, id)]_vars

\* C6's case: a scoped container p has resolved the scoped id and holds it, and a
\* container under p resolves it and gets p's instance without a construction
C6_Witness ==
    \E id \in CallIds, p \in Nodes, d \in Nodes :
        /\ IsScoped(id) /\ BuildsNew(id)
        /\ parent[d] = p /\ parent[p] # NoParent
        /\ Rets(p, id) # {} /\ MapHas(instances[p], id) /\ ~MapHas(instances[d], id)
        /\ Got(id) /\ last.node = d /\ last.val = instances[p][id] /\ last.built = <<>>

\* the registration of id is the one useInstance made for the pre-built instance
RegisteredInstance(id) ==
    /\ MapHas(registrations, id)
    /\ registrations[id].instance = InstanceOf(id)
    /\ registrations[id].constructor = NoClass
    /\ registrations[id].factory = NoFactory

\* C7: get(id) for an id registered with a pre-built instance returns that instance, on
\* every node and under every lifetime, and invokes no constructor or factory
C7_InstanceReturned ==
    (last.op = "get" /\ RegisteredInstance(last.id))
        => last.err = "" /\ last.val = InstanceOf(last.id) /\ last.built = <<>>

\* C7's case: a pre-built instance registered with the scoped or the transient lifetime,
\* resolved on the root and again on a scoped container
C7_Witness ==
    /\ last.op = "get" /\ RegisteredInstance(last.id)
    /\ registrations[last.id].lifetime # "singleton"
    /\ parent[last.node] # NoParent
    /\ Rets(Root, last.id) # {}
    /\ last.val = InstanceOf(last.id)

\* C8: get(id) on a node that has overridden id returns the instance of the node's
\* latest override of id
C8_OverrideReturned ==
    (last.op = "get" /\ MapHas(ov[last.node], last.id))
        => last.err = "" /\ last.val = ov[last.node][last.id]

\* C8's case: the root held a cached instance of id before the override on a scoped
\* container, which then resolves id
C8_Witness ==
    /\ last.op = "get" /\ MapHas(ov[last.node], last.id)
    /\ Truthy(MapGet(instances[Root], last.id))
    /\ instances[Root][last.id] # ov[last.node][last.id]
    /\ last.val = ov[last.node][last.id]

\* no node on the way from n to the root has overridden id
NoOverrideOnPath(n, id) == \A m \in Path(n) : ~MapHas(ov[m], id)

\* C9: get(id) on a scoped container with no override of id never returns the instance
\* that a sibling scope passed to override(id, _)
C9_OverrideLocal ==
    \A s1 \in Nodes :
        (/\ last.op = "get"
         /\ s1 # last.node /\ parent[last.node] # NoParent
         /\ parent[s1] = parent[last.node]
         /\ MapHas(ov[s1], last.id)
         /\ NoOverrideOnPath(last.node, last.id))
            => last.val # ov[s1][last.id]

\* C10: when the root had the singleton id cached at the first override of id, get(id)
\* on a node with no override of id on its way to the root returns that cached value
C10_LiveSingletonKept ==
    (/\ last.op = "get"
     /\ MapHas(live, last.id)
     /\ NoOverrideOnPath(last.node, last.id))
        => last.err = "" /\ last.val = live[last.id]

\* C11: after s.override(id, x), get(id) on a descendant d of s with no cached entry for
\* id on d or between d and s returns x, and get(id) on a node outside the subtree of s
\* that holds a cached entry for id and did not override id returns that entry
C11_OverrideVisibleBelow ==
    [][\A id \in CallIds, s \in Nodes, d \in Nodes :
          (/\ MapHas(ov[s], id) /\ d # s
           /\ last'.op = "get" /\ last'.node = d /\ last'.id = id)
              => /\ (s \in Path(d) /\ \A m \in Nearer(d, s) : ~MapHas(instances[m], id))
                        => last'.err = "" /\ last'.val = ov[s][id]
                 /\ (s \notin Path(d) /\ MapHas(instances[d], id) /\ ~MapHas(ov[d], id))
                        => last'.err = "" /\ last'.val = instances[d][id]]_vars

----------------------------------------------------------------------------
(* Properties of build() *)

Range(seq) == {seq[i] : i \in 1..Len(seq)}

\* the map build() checks for the registry as it is
BuiltMap == BuildRegistrations(RegistryBuilders(registry))

\* the dependencies of id that are not keys of that map, and the ids that have some
MissingSet(id) == {d \in Range(BuiltMap[id].dependencies) : ~MapHas(BuiltMap, d)}
Offenders == {id \in DOMAIN BuiltMap : MissingSet(id) # {}}

\* the dependency graph: constructor and collection edges
Edge(a, b) == MapHas(BuiltMap, a) /\ b \in Range(BuiltMap[a].dependencies)

\* the identifiers reached from those in `from` by one to k edges
RECURSIVE Reached(_, _)
Reached(from, k) ==
    LET step == {b \in RegistryIds : \E a \in from : Edge(a, b)}
    IN  IF k = 1 THEN step ELSE step \cup Reached(step, k - 1)
HasCycle == \E id \in RegistryIds : id \in Reached({id}, Cardinality(RegistryIds))

\* a concrete cycle of the graph, first and last identifier equal
IsCyclePath(path) ==
    /\ Len(path) >= 2
    /\ path[1] = path[Len(path)]
    /\ \A i \in 1..(Len(path) - 1) : Edge(path[i], path[i + 1])

\* C12: when some registration has a dependency that is not a key of the map, build()
\* fails with MissingDependencies, naming one such registration and exactly its
\* unregistered dependencies
C12_MissingDependenciesReported ==
    (outcome.op = "build" /\ Offenders # {})
        => /\ outcome.err = "MissingDependencies"
           /\ outcome.errId \in Offenders
           /\ Range(outcome.names) = MissingSet(outcome.errId)

\* C12's case: a build failed for a registration with two unregistered dependencies
\* while another registration had all of its dependencies registered
C12_Witness ==
    /\ outcome.op = "build" /\ outcome.err = "MissingDependencies"
    /\ Cardinality(MissingSet(outcome.errId)) = 2
    /\ Len(outcome.names) = 2
    /\ \E id \in DOMAIN BuiltMap :
          id # "Container" /\ BuiltMap[id].dependencies # <<>> /\ MissingSet(id) = {}

\* C13: when every dependency is registered and the dependency graph has a cycle,
\* build() fails with CircularDependency and the path it reports is a cycle of the graph
C13_CycleReported ==
    (outcome.op = "build" /\ Offenders = {} /\ HasCycle)
        => outcome.err = "CircularDependency" /\ IsCyclePath(outcome.names)

\* the registry holds A needing B, B needing C and C needing B, in some order
ChainIntoCycle ==
    /\ RegistryKeys(registry) = {"A", "B", "C"}
    /\ BuiltMap["A"].dependencies = <<"B">>
    /\ BuiltMap["B"].dependencies = <<"C">>
    /\ BuiltMap["C"].dependencies = <<"B">>

\* C14: the cycle check of build() never recurses without end, and for A needing B, B
\* needing C, C needing B, whatever the order of registration, build() fails with the
\* cycle of B and C
C14_CycleCheckTerminates ==
    outcome.op = "build"
        => /\ outcome.err # "CallStackExceeded"
           /\ ChainIntoCycle
                => outcome.err = "CircularDependency" /\ Range(outcome.names) = {"B", "C"}

\* C15: when every dependency is registered and the graph has no cycle, build() raises
\* no error and returns a root container over the built map
C15_ValidGraphBuilds ==
    (outcome.op = "build" /\ Offenders = {} /\ ~HasCycle)
        => /\ outcome.err = ""
           /\ registrations = BuiltMap
           /\ parent = <<NoParent>> /\ instances = <<EmptyMap>>

\* C15's case: a diamond was built, D needing B and C, which both need A
C15_Witness ==
    /\ outcome.op = "build" /\ outcome.err = ""
    /\ RegistryKeys(registry) = {"A", "B", "C", "D"}
    /\ Edge("D", "B") /\ Edge("D", "C") /\ Edge("B", "A") /\ Edge("C", "A")
    /\ parent = <<NoParent>>

----------------------------------------------------------------------------
(* Properties of Container resolution and of failing gets *)

\* C16: when the Container registration is the one build() set, get(Container) on the
\* root returns the root container
C16_RootResolvesItself ==
    (/\ last.op = "get" /\ last.id = "Container" /\ last.node = Root
     /\ registrations["Container"] = ContainerRegistration)
        => last.err = "" /\ last.val = ContainerRef(Root)

\* C17: when the caller registered Container, the map of the built root holds the
\* caller's registration under Container and get(Container) on the root returns what
\* that registration yields
C17_CallerContainerKept ==
    (outcome.op = "build" /\ outcome.err = "" /\ IsRegistered(registry, "Container"))
        => /\ registrations["Container"]
                 = RegistrationBuild(RegistryBuilders(registry)["Container"])
           /\ registrations["Container"] # ContainerRegistration
           /\ Get(World, Root, "Container").err = ""
           /\ Get(World, Root, "Container").val = InstanceOf("Container")

\* C17's case: a build returned for a registry in which the caller registered Container
\* and a service
C17_Witness ==
    /\ outcome.op = "build" /\ outcome.err = ""
    /\ IsRegistered(registry, "Container") /\ IsRegistered(registry, "A")
    /\ parent = <<NoParent>>

\* C18: get(id) fails with RegistrationNotFound(id) exactly when id is not a key of the
\* registration map, and then no construction was made
C18_NotFoundExactlyWhenAbsent ==
    last.op = "get"
        => /\ (last.err = "RegistrationNotFound" /\ last.errId = last.id)
                 <=> ~MapHas(registrations, last.id)
           /\ ~MapHas(registrations, last.id) => last.built = <<>>

\* C18's case: get on a scoped container of an identifier that is not registered, while
\* another identifier is
C18_Witness ==
    /\ last.op = "get" /\ parent[last.node] # NoParent
    /\ ~MapHas(registrations, last.id)
    /\ last.err = "RegistrationNotFound"
    /\ \E id \in CallIds : MapHas(registrations, id)

\* the get call just made failed with one of the two resolution errors
GetFailed == last'.op = "get" /\ last'.err \in {"RegistrationNotFound", "InvalidRegistration"}

\* C19 as stated: a get that fails with RegistrationNotFound or InvalidRegistration
\* leaves the cache of every node as it was
C19_FailedGetKeepsCaches ==
    [][GetFailed => instances' = instances]_vars

\* C19 as amended: a get that fails changes no cache entry under the requested id, and
\* changes a cache entry only under an identifier whose construction the call completed
C19_FailedGetStoresOnlyCompleted ==
    [][GetFailed =>
          \A n \in Nodes, id \in Ids :
              (\/ MapHas(instances'[n], id) # MapHas(instances[n], id)
               \/ MapGet(instances'[n], id) # MapGet(instances[n], id))
                  => /\ id # last'.id
                     /\ \E i \in 1..Len(last'.built) : last'.built[i][2] = id]_vars

\* C19's case: a get on a scoped container failed on a later dependency after an
\* earlier one was resolved and stored in the root's cache
C19_Witness ==
    /\ last.op = "get" /\ last.err \in {"RegistrationNotFound", "InvalidRegistration"}
    /\ last.errId # last.id
    /\ parent[last.node] # NoParent
    /\ last.built = <<<<last.node, "Container">>>>
    /\ MapHas(instances[Root], "Container")
    /\ \A n \in Nodes : ~MapHas(instances[n], last.id)

\* the registration of id has no constructor, no factory and no instance
NoStrategy(id) ==
    /\ MapHas(registrations, id)
    /\ registrations[id].constructor = NoClass
    /\ registrations[id].factory = NoFactory
    /\ registrations[id].instance = Undefined

\* C20: get(id) for a registration with no creation strategy fails with
\* InvalidRegistration(id), and no cache holds an entry under such an id
C20_NoStrategyFails ==
    /\ (last.op = "get" /\ NoStrategy(last.id))
          => last.err = "InvalidRegistration" /\ last.errId = last.id /\ last.built = <<>>
    /\ \A n \in Nodes, id \in GetIds : NoStrategy(id) => ~MapHas(instances[n], id)

\* C20's case: a registration with no strategy and the singleton lifetime, asked for on
\* the root and then on a scoped container
C20_Witness ==
    /\ last.op = "get" /\ NoStrategy(last.id)
    /\ registrations[last.id].lifetime = "singleton"
    /\ parent[last.node] # NoParent
    /\ last.err = "InvalidRegistration"
    /\ calls >= 3

----------------------------------------------------------------------------
(* Properties of register, remove and isRegistered *)

\* C21: after any sequence of register and remove calls, isRegistered(id) is true
\* exactly when the latest register(id) or remove(id) that returned was a register(id),
\* and register(id) returns for an id whose latest such call was a remove(id)
C21_IsRegisteredFollowsCalls ==
    \A id \in RegistryIds :
        /\ IsRegistered(registry, id)
              <=> (MapHas(history, id) /\ history[id].op = "register")
        /\ (MapHas(history, id) /\ history[id].op = "remove")
              => Register(registry, id).err = ""

\* C21's case: register(id) returned for the second time, after a remove(id) that
\* returned, while another identifier stayed registered
C21_Witness ==
    /\ outcome.op = "register" /\ outcome.err = ""
    /\ history[outcome.id].n = 2
    /\ IsRegistered(registry, outcome.id)
    /\ Len(registry) = 2

\* C22: register(id) for a registered id throws RegistrationExists for id, remove(id)
\* for an id that is not registered throws RegistrationNotFound for id, and both leave
\* the registry's Map, the builders in it included, as it was
C22_FailedCallKeepsRegistry ==
    [][/\ (outcome'.op = "register" /\ IsRegistered(registry, outcome'.id))
            => /\ outcome'.err = "RegistrationExists" /\ outcome'.errId = outcome'.id
               /\ registry' = registry
       /\ (outcome'.op = "remove" /\ ~IsRegistered(registry, outcome'.id))
            => /\ outcome'.err = "RegistrationNotFound" /\ outcome'.errId = outcome'.id
               /\ registry' = registry]_vars

\* C22's case: a remove of an absent id threw on a registry that holds two configured
\* registrations and on which a register of a registered id had thrown before
C22_Witness ==
    /\ outcome.op = "remove" /\ outcome.err = "RegistrationNotFound"
    /\ "RegistrationExists" \in thrown
    /\ Len(registry) = 2
    /\ \A i \in 1..Len(registry) : registry[i].b # NewRegistration

\* C23: a build() that throws MissingDependencies or CircularDependency leaves the
\* registry's Map and the container of an earlier build as they were and returns no
\* container; and a build() on a registry on which such a build has thrown, once every
\* dependency is registered and the graph has no cycle, returns a root container over
\* the built map
C23_FailedBuildCanBeRepeated ==
    [][outcome'.op = "build" =>
          /\ outcome'.err \in {"MissingDependencies", "CircularDependency"}
                => /\ registry' = registry
                   /\ registrations' = registrations
                   /\ parent' = parent /\ instances' = instances
          /\ (/\ thrown \cap {"MissingDependencies", "CircularDependency"} # {}
              /\ Offenders = {} /\ ~HasCycle)
                => /\ outcome'.err = ""
                   /\ registry' = registry
                   /\ registrations' = BuiltMap
                   /\ parent' = <<NoParent>> /\ instances' = <<EmptyMap>>]_vars

\* C23's case: a build returned a container for a registry of a dependant and its
\* dependency, on which a build had thrown MissingDependencies before
C23_Witness ==
    /\ outcome.op = "build" /\ outcome.err = ""
    /\ "MissingDependencies" \in thrown
    /\ \E a, b \in RegistryKeys(registry) : Edge(a, b)
    /\ parent = <<NoParent>>

----------------------------------------------------------------------------
(* Properties of the order of the steps of build() *)

\* C26: when the map has a registration with an unregistered dependency and the graph
\* has a cycle, build() fails with MissingDependencies and not with CircularDependency,
\* wherever the registrations of the cycle stand in the map
C26_MissingCheckedBeforeCycles ==
    (outcome.op = "build" /\ Offenders # {} /\ HasCycle)
        => /\ outcome.err = "MissingDependencies"
           /\ outcome.errId \in Offenders

\* C26's case: a build threw MissingDependencies for a registration that stands in the
\* map behind a registration on a cycle
C26_Witness ==
    /\ outcome.op = "build" /\ outcome.err = "MissingDependencies"
    /\ \E i, j \in 1..Len(registry) :
          /\ i < j
          /\ registry[i].id \in Reached({registry[i].id}, Cardinality(RegistryIds))
          /\ registry[j].id = outcome.errId

\* the registrations as the caller registered them, without the Container registration
\* of build()
CallerMap ==
    [id \in RegistryKeys(registry) |-> RegistrationBuild(RegistryBuilders(registry)[id])]

\* C27: the checks of build() see the map as the caller registered it: when a
\* registration depends on an identifier the caller did not register, Container
\* included, build() fails with MissingDependencies
C27_ValidatorChecksCallerMap ==
    (/\ outcome.op = "build"
     /\ \E id \in DOMAIN CallerMap :
           \E d \in Range(CallerMap[id].dependencies) : ~MapHas(CallerMap, d))
        => outcome.err = "MissingDependencies"

----------------------------------------------------------------------------
(* Properties of collections and of the order of resolution *)

ArrayShaped(id) ==
    MapHas(registrations, id) /\ registrations[id].collectionDependencies.kind = "array"
MapShaped(id) ==
    MapHas(registrations, id) /\ registrations[id].collectionDependencies.kind = "map"

\* v is what a get(id) on the node of the latest call yields: the identical value when
\* id is not transient, a value of the same kind and class when it is
AsDirectGet(v, id) ==
    LET direct == Get(World, last.node, id)
    IN  /\ direct.err = ""
        /\ IF IsTransient(id) THEN v.k = direct.val.k /\ v.of = direct.val.of
           ELSE v = direct.val

\* C24: get on the array-shaped registration with the pushes ListPushes returns an
\* Array with one element per push, in the order of the pushes, the i-th element being
\* what get of the i-th pushed identifier yields on the same node, the identical object
\* when that identifier is a singleton
C24_ArrayResolved ==
    \A id \in CallIds :
        (Got(id) /\ ArrayShaped(id))
            => /\ last.val.k = "array"
               /\ Len(last.val.items) = Len(ListPushes)
               /\ \A i \in 1..Len(ListPushes) :
                     /\ i <= Len(last.val.items)
                     /\ AsDirectGet(last.val.items[i], ListPushes[i])

\* C24's case: a scope resolved the array while A was a singleton the root had cached
C24_Witness ==
    /\ Got("B") /\ ArrayShaped("B")
    /\ last.node # Root
    /\ IsSingleton("A")
    /\ Len(last.val.items) = 2
    /\ MapHas(instances[Root], "A") /\ last.val.items[1] = instances[Root]["A"]
    /\ last.val.items[1].k = "object"

\* the keys of the calls DictSets and the identifier of the last call for a key
DictKeys == {DictSets[i][1] : i \in 1..Len(DictSets)}
LastSet(key) ==
    LET is == {i \in 1..Len(DictSets) : DictSets[i][1] = key}
    IN  DictSets[CHOOSE i \in is : \A k \in is : k <= i][2]

\* C25: get on the map-shaped registration with the calls DictSets returns a Map with
\* one entry per registered key, the value under a key being what get of the
\* identifier last set for that key yields on the same node, the identical object when
\* that identifier is a singleton
C25_MapResolved ==
    \A id \in CallIds :
        (Got(id) /\ MapShaped(id))
            => /\ last.val.k = "map"
               /\ Len(last.val.items) = Cardinality(DictKeys)
               /\ {last.val.items[i].of : i \in 1..Len(last.val.items)} = DictKeys
               /\ \A i \in 1..Len(last.val.items) :
                     /\ last.val.items[i].k = "entry"
                     /\ last.val.items[i].of \in DictKeys
                           => AsDirectGet(last.val.items[i].args[1],
                                          LastSet(last.val.items[i].of))

\* C25's case: a scope resolved the map while A was a singleton the root had cached;
\* the key that was set twice holds A
C25_Witness ==
    /\ Got("B") /\ MapShaped("B")
    /\ last.node # Root
    /\ IsSingleton("A")
    /\ MapHas(instances[Root], "A")
    /\ \E i \in 1..Len(last.val.items) :
          /\ last.val.items[i].of = "x"
          /\ last.val.items[i].args[1] = instances[Root]["A"]
          /\ last.val.items[i].args[1].k = "object"

\* the place of the first construction of id in the latest call, 0 when there is none
Pos(id) ==
    LET is == {i \in 1..Len(last.built) : last.built[i][2] = id}
    IN  IF is = {} THEN 0 ELSE CHOOSE i \in is : \A k \in is : i <= k

\* the identifiers of seq are constructed in the order of seq, those that are at all
InOrder(seq) ==
    \A i, j \in 1..Len(seq) :
        (i < j /\ Pos(seq[i]) > 0 /\ Pos(seq[j]) > 0) => Pos(seq[i]) < Pos(seq[j])

\* C28: in a get(id) on n for a constructor-based id, every construction is made by n;
\* the constructor dependencies are constructed in the order of the parameters and
\* before id is, and the constructor receives one value per parameter; the collection
\* dependencies are constructed in the order of their registration and only after id
\* has been
C28_ResolutionOrder ==
    \A id \in CallIds :
        (/\ last.op = "get" /\ last.id = id /\ MapHas(registrations, id)
         /\ registrations[id].constructor # NoClass)
            => LET ctorDependencies == registrations[id].ctorDependencies
                   collection == registrations[id].collectionDependencies.ids
               IN  /\ \A i \in 1..Len(last.built) : last.built[i][1] = last.node
                   /\ InOrder(ctorDependencies)
                   /\ \A i \in 1..Len(ctorDependencies) :
                         Pos(id) > 0 => Pos(ctorDependencies[i]) < Pos(id)
                   /\ Pos(id) > 0 /\ last.err = ""
                         => Len(last.val.args) = Len(ctorDependencies)
                   /\ InOrder(collection)
                   /\ \A i \in 1..Len(collection) :
                         Pos(collection[i]) > 0 => (Pos(id) > 0 /\ Pos(id) < Pos(collection[i]))

\* C28's case: a scope constructed B, which takes Container and A, and constructed both
\* of them for it
C28_Witness ==
    /\ Got("B") /\ last.node # Root
    /\ registrations["B"].ctorDependencies = <<"Container", "A">>
    /\ last.built = <<<<last.node, "Container">>, <<last.node, "A">>, <<last.node, "B">>>>

----------------------------------------------------------------------------
(* Properties of the caches *)

\* C29: no node but the root has a cache entry under a singleton id; and when a get(id)
\* on any node constructs the singleton, the root's cache holds the returned object
\* under id and get(id) on every node of the tree, the nodes outside that scope among
\* them, returns that object
C29_SingletonKeptByRoot ==
    \A id \in GetIds :
        /\ IsSingleton(id) => \A m \in Nodes \ {Root} : ~MapHas(instances[m], id)
        /\ (Got(id) /\ IsSingleton(id) /\ Pos(id) > 0)
              => /\ MapHas(instances[Root], id) /\ instances[Root][id] = last.val
                 /\ \A m \in Nodes :
                       Get(World, m, id).err = "" /\ Get(World, m, id).val = last.val

\* C29's case: a scope of a scope constructed a singleton object
C29_Witness ==
    /\ last.op = "get" /\ last.err = "" /\ IsSingleton(last.id)
    /\ last.val.k = "object"
    /\ Pos(last.id) > 0
    /\ parent[last.node] # NoParent /\ parent[parent[last.node]] = Root
    /\ instances[Root][last.id] = last.val

\* the identifiers a construction of id asks the container for: the dependencies of the
\* registration and the identifiers its factory gets
Asks(id) ==
    IF MapHas(registrations, id)
    THEN Range(registrations[id].dependencies) \cup Range(registrations[id].factory.gets)
    ELSE {}

\* the identifiers a get(id) may resolve on its way
RECURSIVE AsksFrom(_, _)
AsksFrom(from, k) ==
    LET step == UNION {Asks(a) : a \in from}
    IN  IF k = 1 THEN step ELSE step \cup AsksFrom(step, k - 1)

\* C30: a get(id) for a transient id leaves the entry under id of every node's cache as
\* it was, absent; the value it returns from a constructor or a factory is made in that
\* call; and its only effect on the caches is to add entries, none of which existed
\* before, for identifiers that id asks for and that are not transient
C30_TransientNeverCached ==
    [][(last'.op = "get" /\ IsTransient(last'.id))
          => /\ \A m \in Nodes :
                   /\ ~MapHas(instances[m], last'.id)
                   /\ ~MapHas(instances'[m], last'.id)
             /\ (/\ last'.err = ""
                 /\ \/ registrations[last'.id].constructor # NoClass
                    \/ registrations[last'.id].factory.kind # "undefined")
                   => \E i \in 1..Len(last'.built) :
                         last'.built[i] = <<last'.node, last'.id>>
             /\ \A m \in Nodes : \A x \in Ids :
                   (MapHas(instances'[m], x) /\ MapGet(instances'[m], x) # MapGet(instances[m], x))
                       => /\ x # last'.id
                          /\ ~MapHas(instances[m], x)
                          /\ x \in AsksFrom({last'.id}, Cardinality(Ids))
                          /\ ~IsTransient(x)
             /\ \A m \in Nodes : \A x \in Ids :
                   MapHas(instances[m], x) => MapHas(instances'[m], x)]_vars

----------------------------------------------------------------------------
(* Properties of the scope tree, of the lookup and of the registration map *)

\* C31: createScopedContainer() on p returns a node that did not exist, with parent p
\* and an empty cache, over the same registration map; every existing node keeps its
\* parent and its cache, and nothing is constructed
C31_ScopeCreatedEmpty ==
    [][last'.op = "createScopedContainer"
          => /\ Len(parent') = Len(parent) + 1
             /\ last'.val = ContainerRef(Len(parent'))
             /\ \A m \in Nodes : last'.val # ContainerRef(m)
             /\ parent'[Len(parent')] = last'.node
             /\ Len(instances') = Len(parent')
             /\ instances'[Len(parent')] = EmptyMap
             /\ registrations' = registrations
             /\ \A m \in Nodes : parent'[m] = parent[m] /\ instances'[m] = instances[m]
             /\ nextObj' = nextObj /\ last'.built = <<>>]_vars

\* C31's case: a scope that holds a cached instance created a scope of its own
C31_Witness ==
    /\ last.op = "createScopedContainer"
    /\ last.node # Root
    /\ instances[last.node] # EmptyMap
    /\ parent[Len(parent)] = last.node
    /\ instances[Len(parent)] = EmptyMap

\* the nodes on the path from n to the root whose cache has an entry under id
Holders(n, id) == {m \in Path(n) : MapHas(instances[m], id)}

\* C32: for an id that is not transient, when some node on the path from n to the root
\* has an entry under id, get(id) on n returns the entry of the nearest such node,
\* constructs nothing and changes no cache
C32_NearestEntryReturned ==
    [][(/\ last'.op = "get" /\ MapHas(registrations, last'.id)
        /\ ~IsTransient(last'.id)
        /\ Holders(last'.node, last'.id) # {})
          => LET holders == Holders(last'.node, last'.id)
                 nearest == CHOOSE m \in holders : holders \subseteq Path(m)
             IN  /\ last'.err = ""
                 /\ last'.val = instances[nearest][last'.id]
                 /\ last'.built = <<>>
                 /\ instances' = instances /\ nextObj' = nextObj]_vars

\* C33: get and createScopedContainer leave the registration map as it was;
\* override(id, x) on n changes the map under id only and the caches in n's entry under
\* id only
C33_RegistrationMapKept ==
    [][/\ last'.op \in {"get", "createScopedContainer"} => registrations' = registrations
       /\ last'.op = "override"
            => /\ \A x \in DOMAIN registrations :
                     x # last'.id
                        => MapHas(registrations', x) /\ registrations'[x] = registrations[x]
               /\ DOMAIN registrations' = DOMAIN registrations \cup {last'.id}
               /\ parent' = parent
               /\ \A m \in Nodes : \A x \in Ids :
                     (m # last'.node \/ x # last'.id)
                        => /\ MapHas(instances'[m], x) = MapHas(instances[m], x)
                           /\ MapGet(instances'[m], x) = MapGet(instances[m], x)]_vars

\* C33's case: a scope that holds a cached instance of B overrode A while the root held
\* an instance too
C33_Witness ==
    /\ last.op = "override" /\ last.id = "A"
    /\ MapHas(instances[last.node], "B")
    /\ instances[Root] # EmptyMap
    /\ registrations["A"] = OverrideRegistration(last.val)

C35_OverrideKeptFromDependants ==
    (/\ last.op = "get" /\ last.err = ""
     /\ MapHas(registrations, last.id) /\ registrations[last.id].constructor # NoClass)
        => \A i \in 1..Len(last.val.args) :
              last.val.args[i].k = "mock"
                  => \E s \in Path(last.node) : \E id \in CallIds :
                        MapHas(ov[s], id) /\ ov[s][id] = last.val.args[i]

----------------------------------------------------------------------------
(* Properties that relate the registry to the containers it builds *)

\* the registration creates its instance from a constructor or is a pre-built instance
FromClassOrInstance(registration) ==
    \/ registration.constructor # NoClass
    \/ registration.factory.kind = "undefined" /\ Truthy(registration.instance)

\* C36: in every state of a tree that build() returned, when every registration but
\* the Container registration of build() uses a constructor or a pre-built instance,
\* get(id) returns on every node for every id of the map
C36_ValidationSound ==
    (\A id \in DOMAIN registrations :
        registrations[id] = ContainerRegistration \/ FromClassOrInstance(registrations[id]))
        => \A n \in Nodes : \A id \in DOMAIN registrations : Get(World, n, id).err = ""

\* C36's case: after an override in the tree, a scope resolved B, whose constructor
\* takes A, in a map of constructors and instances
C36_Witness ==
    /\ \A id \in DOMAIN registrations :
          registrations[id] = ContainerRegistration \/ FromClassOrInstance(registrations[id])
    /\ Got("B") /\ last.node # Root
    /\ registrations["B"].ctorDependencies = <<"A">>
    /\ \E n \in Nodes : ov[n] # EmptyMap

FalsyFactoryCached(id) ==
    /\ MapHas(registrations, id)
    /\ Strategy(registrations[id]) = "factory"
    /\ registrations[id].factory.kind = "falsy"
    /\ UsesCache(registrations[id])

----------------------------------------------------------------------------
(* Properties of one registry and the containers of several build() calls *)

\* what the nodes of the c-th container resolve: how get(id) on each of them ends
Resolves(c) ==
    [n \in 1..Len(containers[c].parent), id \in RegistryIds |->
        LET r == Get(WorldOf(c), n, id)
        IN  [val |-> r.val, err |-> r.err, errId |-> r.errId]]

\* the step is a call on the c-th container that wrote its tree or its Map
Called(c) ==
    \/ containers'[c] # containers[c]
    \/ maps'[containers[c].map] # maps[containers[c].map]

\* the step leaves what the c-th container resolves as it was; Resolves(c) is a function
\* of the c-th tree and of its Map, and is compared when the step wrote one of them
SameResolution(c) == ~Called(c) \/ Resolves(c)' = Resolves(c)

\* C37: build() hands the container a Map of its own: a register or remove call that
\* returns after build() changes nothing that a built container resolves, and a call on
\* one built container (an override among them) changes neither the registry nor what
\* a container of another build() of the same registry resolves.
C37_ContainerOwnsItsMap ==
    [][/\ \A c, d \in 1..Len(containers') :
            c # d => containers'[c].map # containers'[d].map
       /\ (history' # history \/ registry' # registry) =>
            \A c \in 1..Len(containers) : SameResolution(c)
       /\ \A c \in 1..Len(containers) :
            Called(c) =>
                /\ registry' = registry
                /\ \A d \in 1..Len(containers) \ {c} : SameResolution(d)]_vars

\* A is registered and the first container built, A is removed and the second container
\* built, and an override of A in a scope of the first container: the registry still
\* lacks A, the second container does not resolve A, the first resolves the override
C37_Witness ==
    /\ Len(containers) = 2
    /\ ~IsRegistered(registry, "A")
    /\ Len(containers[1].parent) = 2
    /\ MapHas(containers[1].instances[2], "A")
    /\ containers[1].instances[2]["A"] \in Mocks
    /\ Get(WorldOf(1), Root, "A").val \in Mocks
    /\ Get(WorldOf(2), Root, "A").err # ""
====
